---- MODULE Spec2Model ----
(***************************************************************************)
(* rose_arch: transform and archive suite files                            *)
(* (lib/python/rose/apps/rose_arch.py).                                    *)
(*                                                                         *)
(* The state is the configuration tree, the files the source globs see,    *)
(* the SQLite cache (.rose-arch.db: tables "targets" and "sources") and    *)
(* the position of one RoseArchApp.run call.  Strings that the code takes  *)
(* apart or concatenates (config keys, target names, source names,         *)
(* compression schemes) are sequences of one-character strings; strings    *)
(* the code only compares (command templates) are TLA+ strings.            *)
(***************************************************************************)
EXTENDS Integers, Sequences, FiniteSets, TLC

\* The exit codes of an archive command: success, a failure code that is also
\* the value a row holds while the command runs, and another failure code.
ExitCodes == {0, 1, 2}
\* Number of edits made to the configuration or the files over a behaviour.
MaxChanges == 1

\* Python's None.
None == "None"

\* RoseArchTarget.ST_*
ST_OLD == "="
ST_NEW == "+"
ST_BAD == "!"
ST_NULL == "0"

(***************************************************************************)
(* Strings                                                                 *)
(***************************************************************************)
\* ord() of the characters the model uses.
Ord(c) ==
    CASE c = "(" -> 40
      [] c = ")" -> 41
      [] c = "." -> 46
      [] c = "/" -> 47
      [] c = "a" -> 97
      [] c = "c" -> 99
      [] c = "x" -> 120
      [] c = "y" -> 121
      [] c = "z" -> 122
      [] OTHER -> 127

\* s < t for Python 2 str: bytewise lexicographic order.
RECURSIVE StrLess(_, _)
StrLess(s, t) ==
    IF t = <<>> THEN FALSE
    ELSE IF s = <<>> THEN TRUE
    ELSE IF Head(s) = Head(t) THEN StrLess(Tail(s), Tail(t))
    ELSE Ord(Head(s)) < Ord(Head(t))

\* sorted(config.value.items()): the keys of a dict are distinct.
RECURSIVE SortedKeys(_)
SortedKeys(S) ==
    IF S = {} THEN <<>>
    ELSE LET m == CHOOSE k \in S : \A o \in S : o = k \/ StrLess(k, o)
         IN  <<m>> \o SortedKeys(S \ {m})

\* s.startswith("(") and s.endswith(")")
Parenthesised(s) == Len(s) >= 1 /\ s[1] = "(" /\ s[Len(s)] = ")"

\* s[1:-1]
Strip(s) == IF Len(s) >= 2 THEN SubSeq(s, 2, Len(s) - 1) ELSE <<>>

\* True when character c occurs in s.
Has(s, c) == \E i \in 1..Len(s) : s[i] = c

\* s.rsplit("/", 1)[1] when "/" is in s.
RECURSIVE AfterLast(_, _)
AfterLast(s, c) ==
    IF Has(Tail(s), c) \/ Head(s) # c
    THEN AfterLast(Tail(s), c)
    ELSE Tail(s)

\* s.split(".", 1)[1] when "." is in s.
RECURSIVE AfterFirst(_, _)
AfterFirst(s, c) == IF Head(s) = c THEN Tail(s) ELSE AfterFirst(Tail(s), c)

(***************************************************************************)
(* Configuration, files, external capabilities                             *)
(***************************************************************************)
\* Config keys "arch:<tail>", named by their tail.
KA == <<"a">>
KPA == <<"(", "a", ")">>
KAZ == <<"a", ".", "z">>
KZ == <<".", "z">>
Keys == {KA, KPA, KAZ, KZ}
\* Number of "arch:<tail>" sections a configuration holds.
MaxTargets == 2

\* command-format values.
CF1 == "put %(sources)s %(target)s"
CF2 == "cp %(sources)s %(target)s"
CFBad == "put %(source)s %(target)s"
\* source-edit-format values.
SE1 == "sed s/a/b/ %(in)s >%(out)s"
SEBad == "sed s/a/b/ %(input)s"
\* rename-format value: "%(cycle)s%(name)s", with ROSE_TASK_CYCLE_TIME=c.
RF1 == "%(cycle)s%(name)s"
\* compress values: "z" has a handler, "q" has none; NoScheme is the
\* compress_scheme of a target that is not compressed (None).
NoScheme == <<>>
SchemeZ == <<"z">>
SchemeQ == <<"q">>
\* source values after shlex.split: lists of glob patterns.
FX == <<"x">>
FY == <<"y">>
Files == {FX, FY}
Checksums == {1, 2}
SourceValues ==
    { <<FX>>, << <<"(", "x", ")">> >>, <<FX, FY>>, <<FX, <<"(", "y", ")">> >> }

\* The placeholders a template names.
Placeholders(fmt) ==
    CASE fmt = CF1 -> {"sources", "target"}
      [] fmt = CF2 -> {"sources", "target"}
      [] fmt = CFBad -> {"source", "target"}
      [] fmt = SE1 -> {"in", "out"}
      [] fmt = SEBad -> {"input"}
      [] fmt = RF1 -> {"cycle", "name"}
      [] OTHER -> {}

\* fmt % dict raises KeyError.
FormatKeyError(fmt, dictkeys) == ~(Placeholders(fmt) \subseteq dictkeys)

\* compress_manager.get_handler(scheme) is not None.
HasHandler(scheme) == scheme = SchemeZ

\* A section of the config tree with no option set.  An option is <<>>
\* when the section does not set it and <<value>> when it does.
EmptyNode ==
    [ignored |-> FALSE, prefix |-> <<>>, cf |-> <<>>, sef |-> <<>>,
     compress |-> <<>>, source |-> <<>>, rename |-> <<>>]

\* The [arch:<tail>] section a key has when it is present: arch:.z sets
\* target-prefix=a, the others set nothing of their own.
TNodeOf(k) ==
    IF k = KZ THEN [EmptyNode EXCEPT !.prefix = << <<"a">> >>] ELSE EmptyNode

VARIABLES
    suite_name,   \* os.getenv("ROSE_SUITE_NAME") of the current run is set
    rnode,        \* the [arch] section: run-level option values
    tnodes,       \* key tail -> its [arch:<tail>] section
    fs,           \* file name -> checksum of its content, 0 when absent
    nchanges,     \* edits made so far
    dbfile,       \* .rose-arch.db exists
    conn,         \* RoseArchDAO.conn is not None
    dbT,          \* rows of table targets
    dbS,          \* rows of table sources
    pc,           \* position of RoseArchApp.run
    keys,         \* config keys the setup loop has still to visit
    s_key_tails,  \* _run's s_key_tails
    targets,      \* _run's targets
    idx,          \* index of the next target of the update loop
    log,          \* commands, cache writes and events of this run, in order
    ret,          \* value run returned
    err,          \* exception run raised
    prev,         \* what the previous run left, when nothing changed since
    prune_suite_name, \* rose_prune: os.getenv("ROSE_SUITE_NAME") is set
    cycles,       \* rose_prune: the cycles of [prune]cycles
    config_globs, \* rose_prune: the globs of [prune]globs
    hosts,        \* rose_prune: the suite's job hosts
    prune_paths,  \* rose_prune: the paths that exist in the suite directory
    prune_pc,     \* position of RosePruneApp.run
    prune_globs,  \* rose_prune: run's globs
    cwd,          \* rose_prune: the working directory
    prune_log,    \* rose_prune: commands and events of this run, in order
    prune_err     \* exception RosePruneApp.run raised

env == <<rnode, tnodes, fs, nchanges>>
db == <<dbfile, conn, dbT, dbS>>
runv == <<suite_name, pc, keys, s_key_tails, targets, idx, log, ret, err>>
prunev == <<prune_suite_name, cycles, config_globs, hosts, prune_paths,
            prune_pc, prune_globs, cwd, prune_log, prune_err>>
vars == <<env, db, runv, prev, prunev>>

(***************************************************************************)
(* RoseArchTarget, RoseArchSource                                          *)
(***************************************************************************)
\* RoseArchSource(checksum, orig_name): name starts as orig_name.
RoseArchSource(checksum, orig_name) ==
    [checksum |-> checksum, orig_name |-> orig_name, name |-> orig_name]

\* RoseArchSource.__eq__: checksum and name.
SourceEq(s1, s2) == s1.checksum = s2.checksum /\ s1.name = s2.name

\* dict == dict on two sources mappings: same keys, equal values.
SourcesEq(d1, d2) ==
    /\ DOMAIN d1 = DOMAIN d2
    /\ \A c \in DOMAIN d1 : SourceEq(d1[c], d2[c])

\* A constructor that starts command_rc at the "in progress" value 1.
RoseArchTargetRc1(name) ==
    [name |-> name, compress_scheme |-> NoScheme, command_format |-> None,
     command_rc |-> 1, sources |-> <<>>, source_edit_format |-> None,
     status |-> None,
     key |-> <<>>, compulsory |-> TRUE, resolved |-> None,
     cachedT |-> {}, cachedS |-> {}]

\* RoseArchTarget(name).  key, compulsory, resolved, cachedT and cachedS are
\* history fields: the config key the target came from,
\* is_compulsory_target, the status _run_target_setup returned, and the rows
\* the two tables held under the target's name when _run looked it up.
RoseArchTarget(name) ==
    [name |-> name, compress_scheme |-> NoScheme, command_format |-> None,
     command_rc |-> 0, sources |-> <<>>, source_edit_format |-> None,
     status |-> None,
     key |-> <<>>, compulsory |-> TRUE, resolved |-> None,
     cachedT |-> {}, cachedS |-> {}]

\* An equality that leaves source_edit_format out of the compared keys.
TargetEqNoEdit(self, other) ==
    /\ self.name = other.name
    /\ self.compress_scheme = other.compress_scheme
    /\ self.command_format = other.command_format
    /\ self.command_rc = other.command_rc
    /\ SourcesEq(self.sources, other.sources)

\* An equality that leaves command_rc out of the compared keys.
TargetEqNoRc(self, other) ==
    /\ self.name = other.name
    /\ self.compress_scheme = other.compress_scheme
    /\ self.command_format = other.command_format
    /\ SourcesEq(self.sources, other.sources)
    /\ self.source_edit_format = other.source_edit_format

\* RoseArchTarget.__eq__.
TargetEq(self, other) ==
    /\ self.name = other.name
    /\ self.compress_scheme = other.compress_scheme
    /\ self.command_format = other.command_format
    /\ self.command_rc = other.command_rc
    /\ SourcesEq(self.sources, other.sources)
    /\ self.source_edit_format = other.source_edit_format

(***************************************************************************)
(* RoseArchDAO                                                             *)
(***************************************************************************)
\* RoseArchDAO.select: the cached target of that name, or None.
DaoSelect(T, S, target_name) ==
    IF \A r \in T : r.target_name # target_name THEN None
    ELSE LET row == CHOOSE r \in T : r.target_name = target_name
             rows == {s \in S : s.target_name = target_name}
         IN  [RoseArchTarget(target_name) EXCEPT
                !.compress_scheme = row.compress_scheme,
                !.command_format = row.command_format,
                !.command_rc = row.command_rc,
                !.source_edit_format = row.source_edit_format,
                !.sources =
                    [c \in {s.checksum : s \in rows} |->
                        LET s == CHOOSE s \in rows : s.checksum = c
                        IN  RoseArchSource(c, s.source_name)]]

\* A delete that leaves the rows of table sources in place.
DaoDeleteSKeep(S, target_name) == S

\* RoseArchDAO.delete: the rows of that name leave both tables.
DaoDeleteT(T, target_name) == {r \in T : r.target_name # target_name}
DaoDeleteS(S, target_name) == {s \in S : s.target_name # target_name}

\* A delete_all that does nothing when there is no filter target.
DaoDeleteAllKeep(rows, filter_names) ==
    IF filter_names = {} THEN rows
    ELSE {r \in rows : r.target_name \in filter_names}

\* RoseArchDAO.delete_all: every row whose name is not a filter target's;
\* with no filter target the WHERE clause is empty.
DaoDeleteAll(rows, filter_names) ==
    IF filter_names = {} THEN {}
    ELSE {r \in rows : r.target_name \in filter_names}

\* Sources rows that record the name a source had before renaming.
SourceRowsOrigName(t) ==
    {[target_name |-> t.name, source_name |-> t.sources[c].orig_name,
      checksum |-> c] : c \in DOMAIN t.sources}

\* The rows RoseArchDAO.insert adds.
TargetRow(t) ==
    [target_name |-> t.name, compress_scheme |-> t.compress_scheme,
     command_format |-> t.command_format, command_rc |-> t.command_rc,
     source_edit_format |-> t.source_edit_format]
SourceRows(t) ==
    {[target_name |-> t.name, source_name |-> t.sources[c].name,
      checksum |-> c] : c \in DOMAIN t.sources}

\* RoseArchDAO.insert raises sqlite3.IntegrityError: PRIMARY KEY(target_name)
\* or UNIQUE(target_name, checksum) is violated.
DaoInsertFails(T, S, t) ==
    \/ \E r \in T : r.target_name = t.name
    \/ \E s \in S : s.target_name = t.name /\ s.checksum \in DOMAIN t.sources

\* An update_command_rc that leaves the row as inserted.
DaoUpdateCommandRcNoop(T, target_name, rc) == T

\* An update_command_rc without the WHERE clause: every row is updated.
DaoUpdateCommandRcAll(T, target_name, rc) ==
    {[r EXCEPT !.command_rc = rc] : r \in T}

\* RoseArchDAO.update_command_rc.
DaoUpdateCommandRc(T, target_name, rc) ==
    {IF r.target_name = target_name THEN [r EXCEPT !.command_rc = rc] ELSE r :
        r \in T}

(***************************************************************************)
(* RoseArchApp._get_conf, _run_target_setup                                *)
(***************************************************************************)
\* One entry of the log: a command run, a cache write or an event handled
\* for the target of config key `key` and name `name`.
LogEntry(op, key, name, rc) == [op |-> op, key |-> key, name |-> name, rc |-> rc]
Ev(op, target, rc) == LogEntry(op, target.key, target.name, rc)

\* _get_conf: the target's own value, else the run-level value, else the
\* default.
GetConf(r_node, t_node, key, default) ==
    IF t_node[key] # <<>> THEN t_node[key][1]
    ELSE IF r_node[key] # <<>> THEN r_node[key][1]
    ELSE default

\* glob(source_prefix + source_glob), source-prefix being empty: a pattern
\* names one file and matches it when the file exists.
Glob(files, source_glob) ==
    IF source_glob \in DOMAIN files /\ files[source_glob] # 0
    THEN {source_glob} ELSE {}

\* The loop over the source patterns (lines 228-256).  acc holds the
\* sources found, whether a compulsory pattern matched nothing, and the
\* events reported.
RECURSIVE ExpandSources(_, _, _, _, _, _)
ExpandSources(files, t_key, name, globs, is_compulsory_target, acc) ==
    IF globs = <<>> THEN acc
    ELSE
        LET g0 == Head(globs)
            opt == Parenthesised(g0)
            source_glob == IF opt THEN Strip(g0) ELSE g0
            is_compulsory_source == IF opt THEN FALSE ELSE is_compulsory_target
            paths == Glob(files, source_glob)
            step ==
                IF paths = {}
                THEN [acc EXCEPT
                        !.events = Append(@,
                            LogEntry("event:source", t_key, name, 0)),
                        !.bad = @ \/ is_compulsory_source]
                ELSE LET path == CHOOSE p \in paths : TRUE
                         checksum == files[path]
                     IN  [acc EXCEPT !.sources =
                            (checksum :> RoseArchSource(checksum, path)) @@ @]
        IN  ExpandSources(files, t_key, name, Tail(globs),
                          is_compulsory_target, step)

\* The compression scheme of a target (lines 262-276): the configured one,
\* else the one the name's extension names when it has a handler.
InferredScheme(name) ==
    LET target_base == IF Has(name, "/") THEN AfterLast(name, "/") ELSE name
    IN  IF Has(target_base, ".") /\ HasHandler(AfterFirst(target_base, "."))
        THEN AfterFirst(target_base, ".")
        ELSE NoScheme

\* rename_format % {"cycle": ..., "name": source.name} for RF1.
Rename(rename_format, source_name) == <<"c">> \o source_name

\* A status for a target without sources that ignores is_compulsory_target.
NoSourcesStatusBad(is_compulsory_target) == ST_BAD

\* The status of a target without sources (lines 257-261).
NoSourcesStatus(is_compulsory_target) ==
    IF is_compulsory_target THEN ST_BAD ELSE ST_NULL

\* _run_target_setup: [raise, target, events].  raise is the exception that
\* leaves the function, None when it returns the target.
RunTargetSetup(r_node, files, t_key, s_key_tail, t_node, is_compulsory_target) ==
    LET target_prefix == GetConf(r_node, t_node, "prefix", <<>>)
        name == target_prefix \o s_key_tail
        command_format == GetConf(r_node, t_node, "cf", None)
        cf_bad == FormatKeyError(command_format, {"sources", "target"})
        source_edit_format == GetConf(r_node, t_node, "sef", "")
        sef_bad == FormatKeyError(source_edit_format, {"in", "out"})
        source == GetConf(r_node, t_node, "source", <<>>)
        exp == ExpandSources(files, t_key, name, source, is_compulsory_target,
                   [sources |-> <<>>, bad |-> FALSE, events |-> <<>>])
        st1 == IF cf_bad \/ sef_bad \/ exp.bad THEN ST_BAD ELSE None
        st2 == IF DOMAIN exp.sources = {}
               THEN NoSourcesStatus(is_compulsory_target)
               ELSE st1
        conf_scheme == GetConf(r_node, t_node, "compress", NoScheme)
        compress_scheme ==
            IF conf_scheme = NoScheme THEN InferredScheme(name) ELSE conf_scheme
        scheme_bad == conf_scheme # NoScheme /\ ~HasHandler(conf_scheme)
        st3 == IF scheme_bad THEN ST_BAD ELSE st2
        rename_format == GetConf(r_node, t_node, "rename", None)
        sources ==
            IF rename_format = None THEN exp.sources
            ELSE [c \in DOMAIN exp.sources |->
                    [exp.sources[c] EXCEPT
                        !.name = Rename(rename_format, exp.sources[c].name)]]
        events ==
            (IF cf_bad
             THEN <<LogEntry("event:command-format", t_key, name, 0)>>
             ELSE <<>>)
            \o (IF sef_bad
                THEN <<LogEntry("event:source-edit-format", t_key, name, 0)>>
                ELSE <<>>)
            \o exp.events
            \o (IF scheme_bad
                THEN <<LogEntry("event:compress", t_key, name, 0)>>
                ELSE <<>>)
    IN  IF command_format = None
        THEN [raise |-> "CompulsoryConfigValueError",
              target |-> RoseArchTarget(name), events |-> <<>>]
        ELSE IF source = <<>>
        THEN [raise |-> "CompulsoryConfigValueError",
              target |-> RoseArchTarget(name),
              events |-> SubSeq(events, 1,
                  (IF cf_bad THEN 1 ELSE 0) + (IF sef_bad THEN 1 ELSE 0))]
        ELSE [raise |-> None,
              target |-> [RoseArchTarget(name) EXCEPT
                  !.command_format = command_format,
                  !.source_edit_format = source_edit_format,
                  !.sources = sources,
                  !.compress_scheme = compress_scheme,
                  !.status = st3,
                  !.key = t_key,
                  !.compulsory = is_compulsory_target,
                  !.resolved = st3],
              events |-> events]

(***************************************************************************)
(* RoseArchApp.run, _run                                                   *)
(***************************************************************************)
\* A sort that leaves the targets in the order they were set up.
SortByNameNoop(ts) == ts

\* targets.sort(key=lambda target: target.name): a stable sort.
RECURSIVE InsertByName(_, _)
InsertByName(sorted, t) ==
    IF sorted = <<>> THEN <<t>>
    ELSE IF StrLess(t.name, Head(sorted).name)
    THEN <<t>> \o sorted
    ELSE <<Head(sorted)>> \o InsertByName(Tail(sorted), t)

RECURSIVE SortByName(_)
SortByName(ts) ==
    IF ts = <<>> THEN <<>>
    ELSE InsertByName(SortByName(SubSeq(ts, 1, Len(ts) - 1)), ts[Len(ts)])

\* A count that takes NULL targets for BAD ones.
CountBadOrNull(ts) ==
    Cardinality({i \in 1..Len(ts) : ts[i].status \in {ST_BAD, ST_NULL}})

\* [target.status for target in targets].count(RoseArchTarget.ST_BAD)
CountBad(ts) == Cardinality({i \in 1..Len(ts) : ts[i].status = ST_BAD})

\* prev: whether the run before this one returned normally with nothing
\* edited since, whether every command it ran succeeded, and the keys of the
\* targets it left NEW or OLD.
NoPrev == [ok |-> FALSE, clean |-> FALSE, good |-> {}]

\* No staging, compression or archive command of the log l failed.
NoFailure(l) ==
    \A j \in 1..Len(l) :
        l[j].op \in {"edit", "symlink", "compress", "archive"} => l[j].rc = 0

\* rose_prune is not run: nothing is configured for it.
PruneIdle ==
    /\ prune_suite_name = FALSE
    /\ cycles = <<>>
    /\ config_globs = <<>>
    /\ hosts = {}
    /\ prune_paths = {}
    /\ prune_pc = "idle"
    /\ prune_globs = <<>>
    /\ cwd = "cwd"
    /\ prune_log = <<>>
    /\ prune_err = None

Init ==
    /\ suite_name = FALSE
    /\ rnode = [EmptyNode EXCEPT !.cf = <<CF1>>, !.source = << <<FX>> >>]
    /\ \E S \in SUBSET Keys :
        /\ Cardinality(S) <= MaxTargets
        /\ tnodes = [k \in S |-> TNodeOf(k)]
    /\ \E c \in {0, 1} : fs = [f \in Files |-> IF f = FX THEN c ELSE 0]
    /\ nchanges = 0
    /\ dbfile = FALSE
    /\ conn = FALSE
    /\ dbT = {}
    /\ dbS = {}
    /\ pc = "idle"
    /\ keys = <<>>
    /\ s_key_tails = {}
    /\ targets = <<>>
    /\ idx = 0
    /\ log = <<>>
    /\ ret = <<>>
    /\ err = None
    /\ prev = NoPrev
    /\ PruneIdle

\* RoseArchApp.run up to the call of _run (lines 104-112), with
\* RoseArchDAO.__init__ and create.
RunStart ==
    /\ pc \in {"idle", "done"}
    /\ suite_name' \in BOOLEAN
    /\ dbfile' = TRUE
    /\ UNCHANGED prunev
    /\ UNCHANGED <<env, dbT, dbS>>
    /\ keys' = IF suite_name' THEN SortedKeys(DOMAIN tnodes) ELSE <<>>
    /\ s_key_tails' = {}
    /\ targets' = <<>>
    /\ idx' = 0
    /\ log' = <<>>
    /\ ret' = <<>>
    /\ err' = None
    /\ conn' = ~dbfile
    /\ pc' = IF suite_name' THEN "setup" ELSE "done"
    /\ prev' = IF pc = "done" /\ err = None /\ ret # <<>> /\ suite_name' 
               THEN [ok |-> TRUE,
                     clean |-> NoFailure(log),
                     good |-> {targets[i].key : i \in
                                 {j \in 1..Len(targets) :
                                    targets[j].status \in {ST_NEW, ST_OLD}}}]
               ELSE NoPrev

\* An exception leaves run: the finally clause closes the connection.
Raise(exc) ==
    /\ pc' = "done"
    /\ err' = exc
    /\ ret' = <<>>
    /\ conn' = FALSE

\* One pass of the loop that sets up the targets (lines 132-166).
SetupTarget ==
    /\ pc = "setup"
    /\ UNCHANGED prunev
    /\ keys # <<>>
    /\ LET t_key == Head(keys)
           t_node == tnodes[t_key]
           opt == Parenthesised(t_key)
           s_key_tail == IF opt THEN Strip(t_key) ELSE t_key
           is_compulsory_target == ~opt
           r == RunTargetSetup(rnode, fs, t_key, s_key_tail, t_node,
                               is_compulsory_target)
           target == [r.target EXCEPT
                         !.cachedT = {row \in dbT : row.target_name = r.target.name},
                         !.cachedS = {row \in dbS : row.target_name = r.target.name}]
           cached == \E row \in dbT : row.target_name = target.name
           differs == ~cached
                      \/ ~TargetEq(DaoSelect(dbT, dbS, target.name), target)
       IN  IF t_node.ignored
           THEN /\ keys' = Tail(keys)
                /\ UNCHANGED <<env, db, suite_name, pc, s_key_tails, targets,
                               idx, log, ret, err, prev>>
           ELSE IF s_key_tail \in s_key_tails
           THEN /\ Raise("RoseArchDuplicateError")
                /\ UNCHANGED <<env, dbfile, dbT, dbS, suite_name, keys,
                               s_key_tails, targets, idx, log, prev>>
           ELSE IF r.raise # None
           THEN /\ Raise(r.raise)
                /\ s_key_tails' = s_key_tails \cup {s_key_tail}
                /\ log' = log \o r.events
                /\ UNCHANGED <<env, dbfile, dbT, dbS, suite_name, keys,
                               targets, idx, prev>>
           ELSE /\ keys' = Tail(keys)
                /\ s_key_tails' = s_key_tails \cup {s_key_tail}
                /\ log' = log \o r.events
                          \o (IF differs THEN <<Ev("delete", target, 0)>>
                              ELSE <<>>)
                /\ conn' = TRUE
                /\ IF differs
                   THEN /\ dbT' = DaoDeleteT(dbT, target.name)
                        /\ dbS' = DaoDeleteS(dbS, target.name)
                        /\ targets' = Append(targets, target)
                   ELSE /\ UNCHANGED <<dbT, dbS>>
                        /\ targets' = Append(targets,
                              [target EXCEPT !.status = ST_OLD])
                /\ UNCHANGED <<env, dbfile, suite_name, pc, idx, ret, err,
                               prev>>

\* The sort of the targets and the stale-row cleanup (lines 167-170).
SortDeleteAll ==
    /\ pc = "setup"
    /\ UNCHANGED prunev
    /\ keys = <<>>
    /\ LET sorted == SortByName(targets)
           names == {sorted[i].name : i \in 1..Len(sorted)}
       IN  /\ targets' = sorted
           /\ dbT' = DaoDeleteAll(dbT, names)
           /\ dbS' = DaoDeleteAll(dbS, names)
    /\ log' = Append(log, LogEntry("delete_all", <<>>, <<>>,
                    Cardinality(dbT) - Cardinality(dbT')))
    /\ conn' = TRUE
    /\ pc' = "update"
    /\ idx' = 1
    /\ UNCHANGED <<env, dbfile, suite_name, keys, s_key_tails, ret, err, prev>>

\* The return of _run (lines 176-177) and the finally clause of run.
Return ==
    /\ pc = "update"
    /\ UNCHANGED prunev
    /\ idx > Len(targets)
    /\ ret' = <<CountBad(targets)>>
    /\ pc' = "done"
    /\ conn' = FALSE
    /\ UNCHANGED <<env, dbfile, dbT, dbS, suite_name, keys, s_key_tails,
                   targets, idx, log, err, prev>>

(***************************************************************************)
(* RoseArchApp._run_target_update                                          *)
(***************************************************************************)
\* The sources are staged in the work directory (line 341).
StagingRequired(target) ==
    \/ \E c \in DOMAIN target.sources :
          target.sources[c].name # target.sources[c].orig_name
    \/ target.source_edit_format # ""

\* What the external commands of one update do: stage is the number of the
\* staging command (source-edit command or symlink) that raises, 0 when none
\* does; compress is TRUE when the compression handler raises; rc is the exit
\* code of the archive command.  A step that is not reached has no outcome.
Outcomes(target) ==
    LET n == Cardinality(DOMAIN target.sources)
    IN  {o \in [stage : 0..n, compress : BOOLEAN, rc : ExitCodes] :
            /\ ~StagingRequired(target) => o.stage = 0
            /\ target.compress_scheme = NoScheme => ~o.compress
            /\ o.stage # 0 => ~o.compress
            /\ (o.stage # 0 \/ o.compress) => o.rc = 0}

\* The log of the try block (lines 333-380) of a pending target.
TryLog(target, o) ==
    LET name == target.name
        stage_op == IF target.source_edit_format # "" THEN "edit" ELSE "symlink"
        n == Cardinality(DOMAIN target.sources)
        staged ==
            IF ~StagingRequired(target) THEN <<>>
            ELSE IF o.stage = 0 THEN [i \in 1..n |-> Ev(stage_op, target, 0)]
            ELSE [i \in 1..o.stage |->
                    Ev(stage_op, target, IF i = o.stage THEN 1 ELSE 0)]
        compressed ==
            IF o.stage # 0 \/ target.compress_scheme = NoScheme THEN <<>>
            ELSE <<Ev("compress", target, IF o.compress THEN 1 ELSE 0)>>
        archived ==
            IF o.stage # 0 \/ o.compress THEN <<>>
            ELSE <<Ev("archive", target, o.rc),
                   IF o.rc # 0 THEN Ev("event:RosePopenError", target, o.rc)
                   ELSE Ev("event:err", target, 0),
                   Ev("event:out", target, 0),
                   Ev("update_command_rc", target, o.rc)>>
    IN  staged \o compressed \o archived

\* A pending target whose command_rc stays 0 when its row is inserted.
SentinelZero(target) == [target EXCEPT !.command_rc = 0]

\* target.command_rc = 1 (line 328): the value the row holds until the
\* archive command has returned.
Sentinel(target) == [target EXCEPT !.command_rc = 1]

\* A finally clause that leaves the work directory in place.
FinallyLogNoDelete(target, status) ==
    <<Ev("event:summary", target, 0)>>
    \o (IF status \in {ST_BAD, ST_NULL}
        THEN <<Ev("event:summary:fail", target, 0)>> ELSE <<>>)

\* The finally clause (lines 381-387): the work directory is deleted, the
\* summary event is reported, and once more at fail level for a BAD or NULL
\* target.
FinallyLog(target, status) ==
    <<Ev("rmtree", target, 0), Ev("event:summary", target, 0)>>
    \o (IF status \in {ST_BAD, ST_NULL}
        THEN <<Ev("event:summary:fail", target, 0)>> ELSE <<>>)

\* _run_target_update of a target that is neither OLD, BAD nor NULL, whose
\* insert succeeds: [raise, target, T, log].  target has the command_rc of
\* line 328.
UpdatePending(target, T, o) ==
    LET name == target.name
        raise == IF o.stage # 0 THEN "RosePopenError"
                 ELSE IF o.compress THEN "CompressError"
                 ELSE None
        status == IF raise = None /\ o.rc = 0 THEN ST_NEW ELSE ST_BAD
        command_rc == IF raise = None THEN o.rc ELSE target.command_rc
    IN  [raise |-> raise,
         target |-> [target EXCEPT !.status = status,
                                   !.command_rc = command_rc],
         T |-> IF raise = None THEN DaoUpdateCommandRc(T, name, o.rc) ELSE T,
         log |-> <<Ev("insert", target, target.command_rc),
                   Ev("mkdtemp", target, 0)>>
                 \o TryLog(target, o)
                 \o FinallyLog(target, status)]

\* One pass of the loop that updates the targets (lines 173-174).
UpdateTarget ==
    /\ pc = "update"
    /\ UNCHANGED prunev
    /\ idx <= Len(targets)
    /\ LET target == targets[idx]
           name == target.name
           sentinel == Sentinel(target)
       IN  IF target.status = ST_OLD
           THEN /\ log' = Append(log, Ev("event:old", target, 0))
                /\ idx' = idx + 1
                /\ UNCHANGED <<env, db, suite_name, pc, keys, s_key_tails,
                               targets, ret, err, prev>>
           ELSE IF target.status \in {ST_BAD, ST_NULL}
           THEN /\ targets' = [targets EXCEPT ![idx].command_rc =
                                 IF target.status = ST_BAD THEN 1 ELSE 0]
                /\ log' = log \o <<Ev("event:status", target, 0),
                                   Ev("event:status:err", target, 0)>>
                /\ idx' = idx + 1
                /\ UNCHANGED <<env, db, suite_name, pc, keys, s_key_tails, ret,
                               err, prev>>
           ELSE IF DaoInsertFails(dbT, dbS, sentinel)
           THEN /\ Raise("IntegrityError")
                /\ targets' = [targets EXCEPT ![idx] = sentinel]
                /\ UNCHANGED <<env, dbfile, dbT, dbS, suite_name, keys,
                               s_key_tails, idx, log, prev>>
           ELSE \E o \in Outcomes(target) :
                LET u == UpdatePending(sentinel,
                             dbT \cup {TargetRow(sentinel)}, o)
                IN  /\ targets' = [targets EXCEPT ![idx] = u.target]
                    /\ dbT' = u.T
                    /\ dbS' = dbS \cup SourceRows(sentinel)
                    /\ log' = log \o u.log
                    /\ UNCHANGED <<env, dbfile, suite_name, keys, s_key_tails,
                                 prev>>
                    /\ IF u.raise = None
                       THEN /\ idx' = idx + 1
                            /\ conn' = TRUE
                            /\ UNCHANGED <<pc, ret, err>>
                       ELSE /\ Raise(u.raise)
                            /\ UNCHANGED idx

(***************************************************************************)
(* The suite's owner edits the configuration and the files between runs    *)
(***************************************************************************)
OptionValues(key) ==
    CASE key = "cf" -> {<<>>, <<CF1>>, <<CF2>>, <<CFBad>>}
      [] key = "sef" -> {<<>>, <<SE1>>, <<SEBad>>}
      [] key = "compress" -> {<<>>, <<SchemeZ>>, <<SchemeQ>>}
      [] key = "source" -> {<<v>> : v \in SourceValues}
      [] key = "rename" -> {<<>>, <<RF1>>}

Edited ==
    /\ pc \in {"idle", "done"}
    /\ nchanges < MaxChanges
    /\ nchanges' = nchanges + 1
    /\ pc' = "idle"
    /\ keys' = <<>>
    /\ s_key_tails' = {}
    /\ targets' = <<>>
    /\ idx' = 0
    /\ log' = <<>>
    /\ ret' = <<>>
    /\ err' = None
    /\ prev' = NoPrev
    /\ UNCHANGED <<db, suite_name, prunev>>

\* A run-level option of the [arch] section is set to another value.
SetOption ==
    /\ Edited
    /\ \E key \in {"cf", "sef", "compress", "source", "rename"} :
       \E v \in OptionValues(key) \ {rnode[key]} :
          rnode' = [rnode EXCEPT ![key] = v]
    /\ UNCHANGED <<tnodes, fs>>

\* A section [arch:<tail>] sets, changes or drops its own command-format.
SetTargetOption ==
    /\ Edited
    /\ \E k \in DOMAIN tnodes :
       \E v \in OptionValues("cf") \ {tnodes[k].cf} :
          tnodes' = [tnodes EXCEPT ![k].cf = v]
    /\ UNCHANGED <<rnode, fs>>

\* A section [arch:<tail>] is added or removed.
AddSection ==
    /\ Edited
    /\ Cardinality(DOMAIN tnodes) < MaxTargets
    /\ \E k \in Keys \ DOMAIN tnodes :
          tnodes' = [j \in DOMAIN tnodes \cup {k} |->
                        IF j = k THEN TNodeOf(k) ELSE tnodes[j]]
    /\ UNCHANGED <<rnode, fs>>

RemoveSection ==
    /\ Edited
    /\ \E k \in DOMAIN tnodes :
          tnodes' = [j \in DOMAIN tnodes \ {k} |-> tnodes[j]]
    /\ UNCHANGED <<rnode, fs>>

\* A section is marked ignored, or no longer.
SetIgnored ==
    /\ Edited
    /\ \E k \in DOMAIN tnodes :
          tnodes' = [tnodes EXCEPT ![k].ignored = ~@]
    /\ UNCHANGED <<rnode, fs>>

\* A file is written with other content, created or removed.
WriteFile ==
    /\ Edited
    /\ \E f \in Files : \E c \in (Checksums \cup {0}) \ {fs[f]} :
          fs' = [fs EXCEPT ![f] = c]
    /\ UNCHANGED <<rnode, tnodes>>

Next ==
    \/ RunStart
    \/ SetupTarget
    \/ SortDeleteAll
    \/ UpdateTarget
    \/ Return
    \/ SetOption
    \/ SetTargetOption
    \/ AddSection
    \/ RemoveSection
    \/ SetIgnored
    \/ WriteFile

Spec == Init /\ [][Next]_vars

(***************************************************************************)
(* Properties                                                              *)
(***************************************************************************)
\* _run was entered and run has ended, by a return or by an exception.
Done == pc = "done" /\ suite_name
\* _run returned its count.
Returned == Done /\ err = None
\* Every config entry has been set up: the update loop is running or over.
AllResolved ==
    \/ pc = "update"
    \/ Done /\ err \in {None, "IntegrityError", "RosePopenError", "CompressError"}

\* The positions in the log of the entries of kind ops for the target of
\* config key k.
Entries(k, ops) == {j \in 1..Len(log) : log[j].key = k /\ log[j].op \in ops}
Commands == {"edit", "compress", "archive"}

\* No other target of the run has the name of target i.
UniqueName(i) ==
    \A j \in 1..Len(targets) : j # i => targets[j].name # targets[i].name

DiffersFromCache(t) ==
    \/ t.cachedT = {}
    \/ \E r \in t.cachedT :
        \/ r.command_format # t.command_format
        \/ r.source_edit_format # t.source_edit_format
        \/ r.compress_scheme # t.compress_scheme
        \/ r.command_rc # 0
    \/ {<<r.source_name, r.checksum>> : r \in t.cachedS}
         # {<<t.sources[c].name, c>> : c \in DOMAIN t.sources}

UnmatchedRequired(k) ==
    LET source == GetConf(rnode, tnodes[k], "source", <<>>)
    IN  \E n \in 1..Len(source) :
            ~Parenthesised(source[n]) /\ Glob(fs, source[n]) = {}

\* C3.  Required source: in a run that returns, every compulsory target one
\* of whose required source patterns matches no file has status BAD and is
\* counted in the returned BAD count, whatever the cache holds.
C3_RequiredSource ==
    Returned =>
        \A i \in 1..Len(targets) :
            (targets[i].compulsory /\ UnmatchedRequired(targets[i].key)) =>
                targets[i].status = ST_BAD /\ ret[1] >= 1

\* The final name of the target of config key k: target-prefix plus the key
\* suffix without its optional parentheses.
FinalName(k) ==
    GetConf(rnode, tnodes[k], "prefix", <<>>)
        \o (IF Parenthesised(k) THEN Strip(k) ELSE k)

\* Two config entries that are not ignored resolve to the same final name.
DuplicateNames ==
    \E k1, k2 \in DOMAIN tnodes :
        /\ k1 # k2
        /\ ~tnodes[k1].ignored
        /\ ~tnodes[k2].ignored
        /\ FinalName(k1) = FinalName(k2)

\* C4.  Duplicate name rejection: a run over a configuration with two
\* entries of the same final target name ends with the duplicate-target
\* error (unless a compulsory option is missing or a command has failed), and
\* no source-edit, compression or archive command has been executed.
C4_DuplicateRejected ==
    (Done /\ DuplicateNames /\ err # "CompulsoryConfigValueError"
          /\ NoFailure(log)) =>
        /\ err = "RoseArchDuplicateError"
        /\ \A j \in 1..Len(log) : log[j].op \notin Commands

\* C5.  Stale cleanup: when a run returns, neither table holds a row whose
\* target_name is not the name of a target of the run; with no target both
\* tables are empty.
C5_StaleCleanup ==
    Returned =>
        LET names == {targets[i].name : i \in 1..Len(targets)}
        IN  /\ \A r \in dbT : r.target_name \in names
            /\ \A r \in dbS : r.target_name \in names

\* C5 witness: a run has returned whose cleanup deleted rows of the targets
\* table.
C5_Witness ==
    /\ Returned
    /\ \E j \in 1..Len(log) : log[j].op = "delete_all" /\ log[j].rc > 0

\* Target i has a log entry of kind ops with a nonzero code.
Failed(i, ops) ==
    \E j \in Entries(targets[i].key, ops) : log[j].rc # 0

\* Every operation of _run_target_update that is logged.
UpdateOps ==
    {"event:old", "event:status", "event:status:err", "insert", "mkdtemp",
     "edit", "symlink", "compress", "archive", "event:RosePopenError",
     "event:err", "event:out", "update_command_rc", "rmtree",
     "event:summary", "event:summary:fail"}

\* C6.  Execution errors are recoverable per target: when a
\* source-edit command, the compression handler or an archive command has
\* failed, the run returns its BAD count, the failing target is BAD and every
\* target has been updated.
C6_ExecutionErrors ==
    (Done /\ \E i \in 1..Len(targets) : Failed(i, Commands)) =>
        /\ err = None
        /\ ret = <<CountBad(targets)>>
        /\ \A i \in 1..Len(targets) :
            /\ Failed(i, Commands) => targets[i].status = ST_BAD
            /\ Entries(targets[i].key, UpdateOps) # {}

\* C7.  Exit signal: a run that returns with a suite name set returns the
\* number of its targets whose status is BAD; every target is OLD, NEW, BAD
\* or NULL by then, and those not BAD are not counted.
C7_ExitSignal ==
    Returned =>
        LET n(st) == Cardinality({i \in 1..Len(targets) : targets[i].status = st})
        IN  /\ Len(ret) = 1
            /\ ret[1] = n(ST_BAD)
            /\ ret[1] + n(ST_OLD) + n(ST_NEW) + n(ST_NULL) = Len(targets)

\* C7 witness: a run has returned 1 with a BAD target and a target that is
\* not BAD.
C7_Witness ==
    /\ Returned
    /\ ret = <<1>>
    /\ \E i \in 1..Len(targets) : targets[i].status \in {ST_NEW, ST_NULL}

\* C8.  Archive command failure: when the archive command of a target exits
\* with a nonzero code c, the target is BAD, an error event carrying c is
\* reported after the command, the BAD count a returning run gives counts the
\* target, and when the run ends the target's cache row records
\* command_rc = c.
C8_ArchiveFailure ==
    \A i \in 1..Len(targets) :
        \A j \in Entries(targets[i].key, {"archive"}) :
            log[j].rc # 0 =>
                /\ targets[i].status = ST_BAD
                /\ \E e \in Entries(targets[i].key, {"event:RosePopenError"}) :
                      e > j /\ log[e].rc = log[j].rc
                /\ Returned => ret[1] >= 1
                /\ Done =>
                    \E r \in dbT :
                        /\ r.target_name = targets[i].name
                        /\ r.command_rc = log[j].rc

\* C8 witness: a run has ended in which an archive command exited with a
\* code other than the sentinel 1.
C8_Witness ==
    /\ Done
    /\ \E j \in 1..Len(log) : log[j].op = "archive" /\ log[j].rc > 1

\* C9.  Archive success: when the archive command of a target exits 0, the
\* target is NEW, and when the run ends the targets table holds exactly one
\* row of the target's name, recording the target's fields with
\* command_rc = 0, and the sources table holds exactly one row per source of
\* the target, with the source's (possibly renamed) name and its checksum.
C9_ArchiveSuccess ==
    \A i \in 1..Len(targets) :
        (\E j \in Entries(targets[i].key, {"archive"}) : log[j].rc = 0) =>
            LET t == targets[i]
            IN  /\ t.status = ST_NEW
                /\ Done =>
                    /\ {r \in dbT : r.target_name = t.name} =
                        {[target_name |-> t.name,
                          compress_scheme |-> t.compress_scheme,
                          command_format |-> t.command_format,
                          command_rc |-> 0,
                          source_edit_format |-> t.source_edit_format]}
                    /\ {r \in dbS : r.target_name = t.name} =
                        {[target_name |-> t.name,
                          source_name |-> t.sources[c].name,
                          checksum |-> c] : c \in DOMAIN t.sources}

\* C9 witness: a run has returned with a NEW target one of whose sources was
\* renamed.
C9_Witness ==
    /\ Returned
    /\ \E i \in 1..Len(targets) :
        /\ targets[i].status = ST_NEW
        /\ \E c \in DOMAIN targets[i].sources :
              targets[i].sources[c].name # targets[i].sources[c].orig_name

\* The compression scheme of target t was configured and has no handler.
UnknownScheme(t) == t.compress_scheme # NoScheme /\ ~HasHandler(t.compress_scheme)

\* C10 as stated.  Zero sources: a target without sources is resolved BAD
\* when its name is compulsory and NULL when it is optional.
C10_ZeroSourcesAsStated ==
    AllResolved =>
        \A i \in 1..Len(targets) :
            DOMAIN targets[i].sources = {} =>
                targets[i].resolved =
                    (IF targets[i].compulsory THEN ST_BAD ELSE ST_NULL)

\* C10 (amended).  Zero sources: a target without sources is resolved BAD
\* when its name is compulsory or its configured compression scheme has no
\* handler, and NULL otherwise, and it keeps that status.  A NULL target is
\* not counted as BAD, nothing is staged, compressed, archived or inserted
\* for it, and when the run ends no cache row of its name exists, provided
\* no other target shares the name.
C10_ZeroSources ==
    AllResolved =>
        \A i \in 1..Len(targets) :
            DOMAIN targets[i].sources = {} =>
                LET t == targets[i]
                IN  /\ t.resolved =
                        (IF t.compulsory \/ UnknownScheme(t)
                         THEN ST_BAD ELSE ST_NULL)
                    /\ t.status = t.resolved
                    /\ t.status = ST_NULL =>
                        /\ Entries(t.key, Commands \cup
                               {"symlink", "insert", "update_command_rc"}) = {}
                        /\ Returned => ret[1] = CountBad(targets)
                        /\ (Done /\ UniqueName(i)) =>
                            /\ \A r \in dbT : r.target_name # t.name
                            /\ \A r \in dbS : r.target_name # t.name

\* C10 witness: a run has returned 0 with a NULL target whose name had cache
\* rows when the run looked it up.
C10_Witness ==
    /\ Returned
    /\ ret = <<0>>
    /\ \E i \in 1..Len(targets) :
        /\ targets[i].status = ST_NULL
        /\ targets[i].cachedT # {}


\* The command-format or the source-edit-format of target t does not accept
\* the substitution of its placeholders.
MalformedTemplate(t) ==
    \/ FormatKeyError(t.command_format, {"sources", "target"})
    \/ FormatKeyError(t.source_edit_format, {"in", "out"})

\* C11.  Malformed command template: once the targets are resolved, every
\* target whose command-format or source-edit-format does not accept its
\* placeholders is BAD, whether its name is compulsory or optional and
\* whether it has sources or not, and no archive command is executed for it.
C11_MalformedTemplate ==
    AllResolved =>
        \A i \in 1..Len(targets) :
            MalformedTemplate(targets[i]) =>
                /\ targets[i].resolved = ST_BAD
                /\ targets[i].status = ST_BAD
                /\ Entries(targets[i].key, {"archive"}) = {}


\* C12.  Absent suite name: a run that finds ROSE_SUITE_NAME unset resolves
\* no target, executes no command, emits no event, and neither creates nor
\* modifies the cache file.
C12_AbsentSuiteName ==
    [][(pc' = "done" /\ ~suite_name') =>
          /\ targets' = <<>>
          /\ log' = <<>>
          /\ dbfile' = dbfile
          /\ dbT' = dbT
          /\ dbS' = dbS]_vars


(***************************************************************************)
(* rose_prune: suite housekeeping (lib/python/rose/apps/rose_prune.py)     *)
(***************************************************************************)
\* A template of the % operator: literal text and %(key)conv placeholders;
\* conv is "" when no conversion character follows the key.
Lit(text) == [lit |-> text, key |-> "", conv |-> ""]
Ph(key, conv) == [lit |-> "", key |-> key, conv |-> conv]

\* "cd %(d)s && ls -d %(g)s && rm -rf %(g)" (line 72).
ShCmdTemplate ==
    <<Lit("cd "), Ph("d", "s"), Lit(" && ls -d "), Ph("g", "s"),
      Lit(" && rm -rf "), Ph("g", "")>>

\* The exception template % args raises, None when it formats: a key that
\* args lacks is a KeyError, a placeholder without conversion character a
\* ValueError ("incomplete format"); the first one met, left to right, wins.
RECURSIVE FormatRaises(_, _)
FormatRaises(template, args) ==
    IF template = <<>> THEN None
    ELSE LET t == Head(template)
         IN  IF t.key = "" THEN FormatRaises(Tail(template), args)
             ELSE IF t.key \notin DOMAIN args THEN "KeyError"
             ELSE IF t.conv = "" THEN "ValueError"
             ELSE FormatRaises(Tail(template), args)

\* The inputs of rose_prune: cycles and globs of the [prune] section, the
\* job hosts and the paths of the suite directory.  A glob names one path.
PruneCycles == {<<>>, <<"1">>, <<"1", "2">>}
PruneConfigGlobs == {<<>>, << <<"s">> >>}
PruneHosts == {"h1", "h2"}
PrunePaths == {<<"w", "1">>, <<"w", "2">>, <<"s">>}

\* suite_engine_proc.get_cycle_items_globs(cycle).
CycleItemsGlobs(cycle) == << <<"w", cycle>> >>

\* The globs of all cycles, in order (lines 65-67).
RECURSIVE CyclesGlobs(_)
CyclesGlobs(cs) ==
    IF cs = <<>> THEN <<>>
    ELSE CycleItemsGlobs(Head(cs)) \o CyclesGlobs(Tail(cs))

\* The state before RosePruneApp.run is called, rose_arch not being run.
PruneInit ==
    /\ suite_name = FALSE
    /\ rnode = EmptyNode
    /\ tnodes = <<>>
    /\ fs = [f \in Files |-> 0]
    /\ nchanges = 0
    /\ dbfile = FALSE
    /\ conn = FALSE
    /\ dbT = {}
    /\ dbS = {}
    /\ pc = "idle"
    /\ keys = <<>>
    /\ s_key_tails = {}
    /\ targets = <<>>
    /\ idx = 0
    /\ log = <<>>
    /\ ret = <<>>
    /\ err = None
    /\ prev = NoPrev
    /\ prune_suite_name = FALSE
    /\ cycles \in PruneCycles
    /\ config_globs \in PruneConfigGlobs
    /\ hosts \in SUBSET PruneHosts
    /\ prune_paths \in SUBSET PrunePaths
    /\ prune_pc = "idle"
    /\ prune_globs = <<>>
    /\ cwd = "cwd"
    /\ prune_log = <<>>
    /\ prune_err = None

\* RosePruneApp.run up to the early returns (lines 45-51).
PruneStart ==
    /\ prune_pc \in {"idle", "done"}
    /\ prune_suite_name' \in BOOLEAN
    /\ prune_globs' = <<>>
    /\ prune_log' = <<>>
    /\ prune_err' = None
    /\ prune_pc' = IF ~prune_suite_name' THEN "done"
                   ELSE IF cycles = <<>> /\ config_globs = <<>> THEN "done"
                   ELSE "generate"
    /\ UNCHANGED <<env, db, runv, prev, cycles, config_globs, hosts,
                   prune_paths, cwd>>

\* The suite log view is generated when there are cycles, and the globs are
\* collected (lines 52-70).
PruneGenerate ==
    /\ prune_pc = "generate"
    /\ prune_log' = IF cycles # <<>>
                    THEN Append(prune_log, [op |-> "generate", host |-> ""])
                    ELSE prune_log
    /\ prune_globs' = CyclesGlobs(cycles) \o config_globs
    /\ prune_pc' = "format"
    /\ UNCHANGED <<env, db, runv, prev, prune_suite_name, cycles,
                   config_globs, hosts, prune_paths, cwd, prune_err>>

\* The remote shell command is formatted (lines 71-72).  The statements
\* after line 72 run only when the formatting raises nothing.
PruneFormat ==
    /\ prune_pc = "format"
    /\ LET raise == FormatRaises(ShCmdTemplate,
                        [k \in {"d", "g"} |-> IF k = "d" THEN "suite_dir_rel"
                                              ELSE "globs"])
       IN  /\ prune_err' = raise
           /\ prune_pc' = IF raise # None THEN "done" ELSE "hosts"
    /\ UNCHANGED <<env, db, runv, prev, prune_suite_name, cycles,
                   config_globs, hosts, prune_paths, prune_globs, cwd,
                   prune_log>>

PruneNext ==
    \/ PruneStart
    \/ PruneGenerate
    \/ PruneFormat

PruneSpec == PruneInit /\ [][PruneNext]_vars

\* C13.  Pruning: when a pruning run with ROSE_SUITE_NAME set and cycles or
\* globs configured has ended, it has raised nothing, the remote delete
\* command has been issued on every job host, no local path matching a glob
\* is left, and the working directory is the original one.
C13_Pruning ==
    (prune_pc = "done" /\ prune_suite_name
        /\ (cycles # <<>> \/ config_globs # <<>>)) =>
        /\ prune_err = None
        /\ \A h \in hosts :
            \E j \in 1..Len(prune_log) :
                prune_log[j].op = "ssh" /\ prune_log[j].host = h
        /\ \A n \in 1..Len(prune_globs) : prune_globs[n] \notin prune_paths
        /\ cwd = "cwd"


\* C14.  Provisional cache row: every staging, compression or archive
\* command of a target, and the allocation of its work directory, comes after
\* the insert of the target's row with a nonzero command_rc; from the insert
\* on a row of the target's name stays in the cache, and its command_rc is
\* nonzero unless the archive command has exited 0, whether the command
\* failed or an error ended the update.
C14_ProvisionalRow ==
    \A i \in 1..Len(targets) :
        LET k == targets[i].key
        IN  /\ \A j \in Entries(k, Commands \cup {"symlink", "mkdtemp"}) :
                \E n \in Entries(k, {"insert"}) : n < j /\ log[n].rc # 0
            /\ Entries(k, {"insert"}) # {} =>
                \E r \in dbT :
                    /\ r.target_name = targets[i].name
                    /\ \/ r.command_rc # 0
                       \/ \E j \in Entries(k, {"archive"}) : log[j].rc = 0

\* C14 witness: an error raised by a staging command or by the compression
\* handler has ended the run, and the row of the target being updated is in
\* the cache with the provisional command_rc.
C14_Witness ==
    /\ Done
    /\ err \in {"RosePopenError", "CompressError"}
    /\ \E r \in dbT :
        r.target_name = targets[idx].name /\ r.command_rc = 1

\* C15.  Cache store lifetime: when a run has ended, by a normal return, by
\* the early return for an unset suite name or by a raised error, the
\* connection to the cache is closed.
C15_CacheClosed == pc = "done" => ~conn

\* C16.  Work directory cleanup: every work directory a target's update
\* allocates is deleted before anything is done for another target, whether
\* the archive command succeeded or failed or a staging command or the
\* compression handler raised; no work directory is left when the run ends.
C16_WorkDirCleanup ==
    \A j \in 1..Len(log) :
        log[j].op = "mkdtemp" =>
            \E d \in (j + 1)..Len(log) :
                /\ log[d].op = "rmtree"
                /\ \A m \in j..d : log[m].key = log[j].key

\* C16 witness: an error raised by a staging command or by the compression
\* handler has ended the run after the work directory of the target being
\* updated was allocated and deleted.
C16_Witness ==
    /\ Done
    /\ err \in {"RosePopenError", "CompressError"}
    /\ Entries(targets[idx].key, {"mkdtemp"}) # {}
    /\ Entries(targets[idx].key, {"rmtree"}) # {}


\* The rows of the two tables under a target name.
RowsT(name) == {r \in dbT : r.target_name = name}
RowsS(name) == {r \in dbS : r.target_name = name}

\* C17.  OLD targets are left untouched: when a run in which no command
\* failed has returned, for every target marked OLD no command was executed,
\* no work directory allocated and no row inserted or updated, and the rows
\* of its name in both tables are those the run found.
C17_OldUntouched ==
    (Returned /\ NoFailure(log)) =>
        \A i \in 1..Len(targets) :
            targets[i].status = ST_OLD =>
                /\ Entries(targets[i].key,
                       Commands \cup {"symlink", "mkdtemp", "insert",
                                      "update_command_rc"}) = {}
                /\ RowsT(targets[i].name) = targets[i].cachedT
                /\ RowsS(targets[i].name) = targets[i].cachedS

\* C18.  BAD/NULL targets are not executed: when a run in which no command
\* failed has returned, for every target that entered the update step BAD or
\* NULL no source-edit, compression or archive command was executed, the
\* update step inserted or updated no row, and no row of the target's name
\* is in the cache.
C18_BadNullNotExecuted ==
    (Returned /\ NoFailure(log)) =>
        \A i \in 1..Len(targets) :
            (targets[i].resolved \in {ST_BAD, ST_NULL}
                /\ targets[i].status # ST_OLD) =>
                /\ Entries(targets[i].key,
                       Commands \cup {"symlink", "mkdtemp", "insert",
                                      "update_command_rc"}) = {}
                /\ RowsT(targets[i].name) = {}
                /\ RowsS(targets[i].name) = {}


\* Entry j of the log belongs to the update of a target.
IsUpdate(j) == log[j].op \in UpdateOps

\* C19.  Sequential name-sorted execution: the update loop starts only when
\* every config entry has been resolved and compared with the cache, so
\* that no entry of the setup follows an entry of an update; the targets are
\* updated in ascending order of their names (no update entry has a smaller
\* name than the entry before it); and the entries of one target's update
\* are not interleaved with those of another (where the key changes, the
\* new key has no earlier update entry).
C19_SortedSequential ==
    /\ (\E j \in 1..Len(log) : IsUpdate(j)) => keys = <<>>
    /\ \A j \in 2..Len(log) :
        IsUpdate(j - 1) =>
            /\ IsUpdate(j)
            /\ ~StrLess(log[j].name, log[j - 1].name)
            /\ log[j].key # log[j - 1].key =>
                \A n \in 1..(j - 1) :
                    IsUpdate(n) => log[n].key # log[j].key

\* C19 witness: a run has returned after archiving two targets whose order
\* by name is the reverse of the order of their config keys.
C19_Witness ==
    /\ Returned
    /\ Len(targets) = 2
    /\ StrLess(targets[2].key, targets[1].key)
    /\ StrLess(targets[1].name, targets[2].name)
    /\ \A i \in 1..2 : Entries(targets[i].key, {"archive"}) # {}

\* Target i entered the update step neither OLD, BAD nor NULL.
Pending(i) == targets[i].resolved = None /\ targets[i].status # ST_OLD

\* C20.  Summary event: when a run in which no command failed has ended,
\* every pending target whose update was started has exactly one summary
\* event, which follows the deletion of its work directory, and one more
\* summary at fail level if its status is BAD or NULL, none otherwise.
C20_SummaryEvent ==
    (Done /\ NoFailure(log)) =>
        \A i \in 1..Len(targets) :
            (i <= idx /\ Pending(i)) =>
                LET k == targets[i].key
                IN  /\ Cardinality(Entries(k, {"event:summary"})) = 1
                    /\ \A e \in Entries(k, {"event:summary"}) :
                        \E d \in Entries(k, {"rmtree"}) : d < e
                    /\ Cardinality(Entries(k, {"event:summary:fail"})) =
                        (IF targets[i].status \in {ST_BAD, ST_NULL}
                         THEN 1 ELSE 0)

\* The row of its name that _run found in the cache for target i records a
\* nonzero command_rc: a failed archive command or an interrupted update.
CachedFailure(i) == \E r \in targets[i].cachedT : r.command_rc # 0

ArchivedOk(t, l) ==
    \E j \in 1..Len(l) :
        /\ l[j].op = "archive"
        /\ l[j].key = t.key
        /\ l[j].name = t.name
        /\ l[j].rc = 0

\* C22.  Cache soundness: a targets row with command_rc = 0 enters the
\* cache, or the sources rows of its name change, only in a step of the
\* update loop in which the archive command was run for the target being
\* updated and exited 0, the row being that target's name, compress_scheme,
\* command_format and source_edit_format and the sources rows of its name
\* being exactly that target's (source name, checksum) pairs; in every other
\* step, a run ended by an error included, such a row and its sources rows
\* are left as they were or removed.  The cache starts empty, so every row
\* with command_rc = 0 describes an archive that succeeded.
C22_CacheSoundness ==
    [][\A r \in dbT' :
        r.command_rc = 0 =>
            \/ /\ r \in dbT
               /\ {s \in dbS' : s.target_name = r.target_name} =
                  {s \in dbS : s.target_name = r.target_name}
            \/ /\ pc = "update"
               /\ idx <= Len(targets)
               /\ r.target_name = targets'[idx].name
               /\ r.compress_scheme = targets'[idx].compress_scheme
               /\ r.command_format = targets'[idx].command_format
               /\ r.source_edit_format = targets'[idx].source_edit_format
               /\ {<<s.source_name, s.checksum>> :
                      s \in {x \in dbS' : x.target_name = r.target_name}} =
                  {<<targets'[idx].sources[c].name, c>> :
                      c \in DOMAIN targets'[idx].sources}
               /\ ArchivedOk(targets'[idx], log')
               /\ ~ArchivedOk(targets[idx], log)]_vars

\* C22 witness: an error has ended a run in the update of one target after
\* the archive of another succeeded: the cache holds a row with
\* command_rc = 0 and the provisional row of the interrupted update.
C22_Witness ==
    /\ Done
    /\ err \in {"RosePopenError", "CompressError"}
    /\ \E r \in dbT : r.command_rc = 0
    /\ \E r \in dbT : r.command_rc = 1

\* C23.  Cache referential integrity: whatever cache operations the runs
\* have committed, the targets table has at most one row per target_name,
\* the sources table has at most one row per (target_name, checksum), and
\* every sources row has a targets row of the same target_name.
C23_ReferentialIntegrity ==
    /\ \A r1, r2 \in dbT : r1.target_name = r2.target_name => r1 = r2
    /\ \A s1, s2 \in dbS :
        (s1.target_name = s2.target_name /\ s1.checksum = s2.checksum) =>
            s1 = s2
    /\ \A s \in dbS : \E r \in dbT : r.target_name = s.target_name

\* C23 witness: a run that deleted a row during the setup and inserted rows
\* in the update loop has been ended by the refusal of an insert under a
\* name already in the targets table, and rows are in both tables.
C23_Witness ==
    /\ Done
    /\ err = "IntegrityError"
    /\ \E j \in 1..Len(log) : log[j].op = "delete"
    /\ \E j \in 1..Len(log) : log[j].op = "insert"
    /\ dbT # {}
    /\ dbS # {}

====
